---- MODULE Spec2Model ----
(***************************************************************************)
(* jarvis-tesla-exporter: TeslaApiClient::get_measurements and the calls   *)
(* it makes (token exchange, vehicle lookup, streaming probe, REST         *)
(* telemetry fetch), as a state machine.  One behaviour is a sequence of   *)
(* reconciliation cycles; the measurements a cycle returns are the prior   *)
(* measurements of the next one.                                           *)
(*                                                                         *)
(* f64 values are integers here.  The streamed odometer is drawn from      *)
(* multiples of 125 miles, for which x * 1609.344 is a whole number of     *)
(* metres.  Measurement.id (a fresh uuid) and measured_at_time (the wall   *)
(* clock) are read by nothing in the program and are left out.             *)
(***************************************************************************)
EXTENDS Integers, Sequences, FiniteSets, TLC

VARIABLES
    config,             \* the Config handed to every cycle
    pc,                 \* where get_measurements stands
    cycle,              \* number of cycles started
    last_measurements,  \* Option<Vec<Measurement>> handed to the cycle
    measurements,       \* the Vec<Measurement> being built
    token,              \* Option<TeslaAccessToken> of the cycle
    vidx,               \* index into config.vehicle_ids of the loop iteration
    vehicle,            \* Option<TeslaVehicle> of the loop iteration
    streaming_data,     \* Option<TeslaVehicleStreamingData> of the iteration
    vehicle_data,       \* Option<TeslaVehicleData> of the iteration
    tries,              \* attempts started by the retry call in progress
    last_error,         \* error of the latest failed attempt of that call
    elapsed,            \* milliseconds since `start` in get_streaming_data
    stream,             \* the streaming server: "live" or "silent"
    calls,              \* calls made in this cycle, per kind and vehicle
    result,             \* what get_measurements returned last
    msg                 \* the frame the latest read_message() returned

vars == << config, pc, cycle, last_measurements, measurements, token, vidx, vehicle,
           streaming_data, vehicle_data, tries, last_error, elapsed, stream,
           calls, result, msg >>

----------------------------------------------------------------------------
(* Program constants *)

RETRY_TAKES == 3
TIMEOUT_SECS == 30
MILLIS_PER_SEC == 1000
EXPECTED_VALUES == 13
METERS_PER_MILE_X1000 == 1609344
WATT_PER_KW == 1000
SECONDS_PER_HOUR == 3600
LOCATION_OTHER == "Other"
DEFAULT_DISPLAY_NAME == "Unknown"
EXPORTER_NAME == "jarvis-tesla-exporter"

(* Bounds of the model *)

MaxIterations == 2
TickMillis == 30500

----------------------------------------------------------------------------
(* Option<T>: None is the empty sequence, Some(x) a sequence of one *)

None == << >>
Some(x) == << x >>
IsSome(o) == Len(o) = 1
Unwrap(o) == o[1]

Min(S) == CHOOSE x \in S : \A y \in S : x <= y
Abs(x) == IF x < 0 THEN -x ELSE x

----------------------------------------------------------------------------
(* model.rs *)

\* TeslaVehicleState and From<String>
TeslaVehicleStateFrom(s) ==
    IF s = "offline" THEN [kind |-> "Offline", raw |-> ""]
    ELSE IF s = "online" THEN [kind |-> "Online", raw |-> ""]
    ELSE IF s = "asleep" THEN [kind |-> "Asleep", raw |-> ""]
    ELSE IF s = "updating" THEN [kind |-> "Updating", raw |-> ""]
    ELSE [kind |-> "Other", raw |-> s]

Offline == TeslaVehicleStateFrom("offline")
Asleep == TeslaVehicleStateFrom("asleep")

\* Config: geofences in configured order, vehicle ids in configured order
ConfigGeofences ==
    << [location |-> "Home", latitude |-> 0, longitude |-> 0,
        geofence_radius_meters |-> 100],
       [location |-> "Work", latitude |-> 60, longitude |-> 0,
        geofence_radius_meters |-> 100] >>

\* the configured vehicle_ids lists the model runs with
ConfigVehicleIds == { << "v1" >>, << "v1", "v2" >> }

\* geoutils distance on a local grid of metres: compared squared
DistanceSquared(lat1, lon1, lat2, lon2) ==
    (lat1 - lat2) * (lat1 - lat2) + (lon1 - lon2) * (lon1 - lon2)

inside_geofence(data, geofence) ==
    DistanceSquared(data.latitude, data.longitude,
                    geofence.latitude, geofence.longitude)
        < geofence.geofence_radius_meters * geofence.geofence_radius_meters

in_geofence_Nearest(data, geofences) ==
    LET hits == { i \in 1..Len(geofences) : inside_geofence(data, geofences[i]) }
        dist(i) == DistanceSquared(data.latitude, data.longitude,
                                   geofences[i].latitude, geofences[i].longitude)
    IN  IF hits = {} THEN None
        ELSE Some(geofences[CHOOSE i \in hits : \A j \in hits : dist(i) <= dist(j)])

in_geofence(data, geofences) ==
    LET hits == { i \in 1..Len(geofences) : inside_geofence(data, geofences[i]) }
    IN  IF hits = {} THEN None ELSE Some(geofences[Min(hits)])

----------------------------------------------------------------------------
(* jarvis_lib Sample and Measurement as get_measurements builds them *)

Sample(sample_type, sample_name, metric_type, value) ==
    [ entity_type |-> "Device", entity_name |-> EXPORTER_NAME,
      sample_type |-> sample_type, sample_name |-> sample_name,
      metric_type |-> metric_type, value |-> value ]

DisplayNameOf(v) ==
    IF IsSome(v.display_name) THEN Unwrap(v.display_name) ELSE DEFAULT_DISPLAY_NAME

BuildMeasurement_NoAvailability(v, location, charger_power, charge_energy_added, odometer, availability) ==
    [ source |-> EXPORTER_NAME,
      location |-> location,
      samples |->
        << Sample("ElectricityConsumption", DisplayNameOf(v), "Gauge", charger_power),
           Sample("ElectricityConsumption", DisplayNameOf(v), "Counter",
                  charge_energy_added),
           Sample("DistanceTraveled", DisplayNameOf(v), "Counter", odometer) >> ]

BuildMeasurement_TwoGauges(v, location, charger_power, charge_energy_added, odometer, availability) ==
    [ source |-> EXPORTER_NAME,
      location |-> location,
      samples |->
        << Sample("ElectricityConsumption", DisplayNameOf(v), "Gauge", charger_power),
           Sample("ElectricityConsumption", DisplayNameOf(v), "Gauge", 0),
           Sample("ElectricityConsumption", DisplayNameOf(v), "Counter",
                  charge_energy_added),
           Sample("DistanceTraveled", DisplayNameOf(v), "Counter", odometer),
           Sample("Availability", DisplayNameOf(v), "Gauge", availability) >> ]

\* lines 143-193: the measurement of one vehicle
BuildMeasurement(v, location, charger_power, charge_energy_added, odometer, availability) ==
    [ source |-> EXPORTER_NAME,
      location |-> location,
      samples |->
        << Sample("ElectricityConsumption", DisplayNameOf(v), "Gauge", charger_power),
           Sample("ElectricityConsumption", DisplayNameOf(v), "Counter",
                  charge_energy_added),
           Sample("DistanceTraveled", DisplayNameOf(v), "Counter", odometer),
           Sample("Availability", DisplayNameOf(v), "Gauge", availability) >> ]

\* iter().find(p).map(|s| s.value).unwrap_or(0.0)
FindValue(samples, sample_type, sample_name, metric_type) ==
    LET hits == { i \in 1..Len(samples) :
                    /\ samples[i].entity_type = "Device"
                    /\ samples[i].sample_type = sample_type
                    /\ samples[i].sample_name = sample_name
                    /\ samples[i].metric_type = metric_type }
    IN  IF hits = {} THEN 0 ELSE samples[Min(hits)].value

FindLastMeasurement_First(lms, display_name) ==
    IF IsSome(lms) /\ Len(Unwrap(lms)) > 0 THEN Some(Unwrap(lms)[1]) ELSE None

\* the first prior measurement with any sample named display_name
FindLastMeasurement(lms, display_name) ==
    IF IsSome(lms)
    THEN LET ms == Unwrap(lms)
             hits == { i \in 1..Len(ms) :
                         \E j \in 1..Len(ms[i].samples) :
                             ms[i].samples[j].sample_name = display_name }
         IN  IF hits = {} THEN None ELSE Some(ms[Min(hits)])
    ELSE None

get_last_values(lms, v) ==
    LET display_name == DisplayNameOf(v)
        lm == FindLastMeasurement(lms, display_name)
    IN  [ location |->
            IF IsSome(lm) THEN Unwrap(lm).location ELSE LOCATION_OTHER,
          charger_power |->
            IF IsSome(lm)
            THEN FindValue(Unwrap(lm).samples, "ElectricityConsumption",
                           display_name, "Gauge")
            ELSE 0,
          charge_energy_added |->
            IF IsSome(lm)
            THEN FindValue(Unwrap(lm).samples, "ElectricityConsumption",
                           display_name, "Counter")
            ELSE 0,
          odometer |->
            IF IsSome(lm)
            THEN FindValue(Unwrap(lm).samples, "DistanceTraveled",
                           display_name, "Counter")
            ELSE 0 ]

----------------------------------------------------------------------------
(* What the remote services can answer *)

HttpErrors == { "connect", "http_timeout" }

RawStates == { "offline", "online", "asleep", "updating", "charging" }

\* the display name the API reports for a vehicle id: the first vehicle is
\* named, the second is unnamed or carries the same name
DisplayNames(id) ==
    IF id = "v1" THEN { Some("Tessie") } ELSE { None, Some("Tessie") }

IdNumber(id) == IF id = "v1" THEN 1 ELSE 2

\* GET /vehicles/{id}: the parsed TeslaVehicle
VehicleResponses(id) ==
    { [ id |-> IdNumber(id), vehicle_id |-> 10 + IdNumber(id),
        display_name |-> dn, state |-> TeslaVehicleStateFrom(raw),
        in_service |-> svc ] :
        dn \in DisplayNames(id), raw \in RawStates, svc \in BOOLEAN }

\* GET /vehicles/{id}/vehicle_data: the parsed TeslaVehicleData
ChargeStates ==
    { [ charge_energy_added |-> 2, charger_power |-> 11,
        charge_port_latch |-> "Engaged" ],
      [ charge_energy_added |-> 2, charger_power |-> 0,
        charge_port_latch |-> "Engaged" ],
      [ charge_energy_added |-> 2, charger_power |-> 0,
        charge_port_latch |-> "Disengaged" ],
      [ charge_energy_added |-> 2, charger_power |-> -1,
        charge_port_latch |-> "Engaged" ] }

VehicleDataResponses ==
    { [ charge_state |-> cs ] : cs \in { None } \cup { Some(c) : c \in ChargeStates } }

\* One comma-separated field of a streamed value: a number, or text that
\* str::parse::<f64> rejects (the stream sends "" for an absent speed)
Num(n) == [ num |-> TRUE, n |-> n ]
Text == [ num |-> FALSE, n |-> 0 ]

SpeedFields == { Text, Num(60) }
OdometerFields == { Text, Num(125), Num(250) }
\* inside both regions, inside the second only, on the edge of the second,
\* outside both
LatitudeFields == { Num(50), Num(120), Num(160), Num(500) }
LongitudeFields == { Num(0) }
PowerFields == { Num(0), Num(-5) }

\* timestamp,speed,odometer,soc,elevation,est_heading,est_lat,est_lng,power,
\* shift_state,range,est_range,heading
StreamedValues(speed, odometer, lat, lon, power) ==
    << Num(1), speed, odometer, Num(80), Num(3), Num(90), lat, lon, power,
       Text, Num(300), Num(280), Num(90) >>

\* the same five fields among other values of the remaining eight
StreamedValuesElsewhere(speed, odometer, lat, lon, power) ==
    << Num(2), speed, odometer, Text, Num(-7), Num(180), lat, lon, power,
       Num(4), Text, Num(120), Num(0) >>

\* every speed, odometer and power at the first position, a parked vehicle
\* at every position, and two updates that differ in the remaining fields
FullValues ==
    { StreamedValues(sp, od, Num(50), Num(0), pw) :
        sp \in SpeedFields, od \in OdometerFields, pw \in PowerFields }
    \cup { StreamedValues(Text, Num(125), la, lo, Num(0)) :
              la \in LatitudeFields, lo \in LongitudeFields }
    \cup { StreamedValuesElsewhere(Num(60), Num(250), Num(50), Num(0), Num(-5)),
           StreamedValuesElsewhere(Text, Text, Num(50), Num(0), Num(0)) }

\* what the loop keeps of a received frame: all but the text of its values,
\* of which it keeps the count
Received(f) ==
    [ kind |-> f.kind, json |-> f.json, msg_type |-> f.msg_type,
      envelope |-> f.envelope, tag |-> f.tag, count |-> Len(f.values) ]

\* a websocket frame: its kind, whether its payload is JSON, the msg_type
\* string of that JSON (None when there is none), whether the JSON has the
\* fields of TeslaStreamingApiMessage, its tag and its split value
Frame(kind, json, msg_type, envelope, tag, values) ==
    [ kind |-> kind, json |-> json, msg_type |-> msg_type,
      envelope |-> envelope, tag |-> tag, values |-> values ]

Frames(v) ==
    { Frame("close", FALSE, None, FALSE, 0, << >>),
      Frame("ping", FALSE, None, FALSE, 0, << >>),
      Frame("binary", FALSE, None, FALSE, 0, << >>),
      Frame("binary", TRUE, None, FALSE, 0, << >>),
      Frame("binary", TRUE, Some("control:hello"), TRUE, v.vehicle_id, << >>),
      Frame("binary", TRUE, Some("data:update"), FALSE, 0, << >>),
      Frame("binary", TRUE, Some("data:error"), FALSE, v.vehicle_id, << >>),
      Frame("binary", TRUE, Some("data:error"), FALSE, v.vehicle_id + 1, << >>),
      Frame("text", TRUE, Some("data:error"), FALSE, v.vehicle_id, << >>),
      Frame("binary", TRUE, Some("data:update"), TRUE, v.vehicle_id,
            << Num(1), Num(60) >>),
      Frame("binary", TRUE, Some("data:update"), TRUE, v.vehicle_id,
            StreamedValues(Num(60), Num(250), Num(50), Num(0), Num(-5))
                \o << Num(1) >>) }
    \cup { Frame(k, TRUE, Some("data:update"), TRUE, t, vals) :
             k \in { "binary", "text" },
             t \in { v.vehicle_id, v.vehicle_id + 1 },
             vals \in FullValues }

----------------------------------------------------------------------------
(* tesla_api_client.rs: pure parts *)

\* values.get(i).unwrap_or("0.0").parse().unwrap_or(0.0), i counted from 0
ParseField(values, i) ==
    IF i + 1 <= Len(values) /\ values[i + 1].num THEN values[i + 1].n ELSE 0

DecodeStreamingData_Shifted(values) ==
    [ latitude |-> ParseField(values, 5),
      longitude |-> ParseField(values, 6),
      power |-> Abs(ParseField(values, 7)),
      speed |-> ParseField(values, 0),
      odometer |-> ParseField(values, 1) ]

\* lines 406-433
DecodeStreamingData(values) ==
    [ latitude |-> ParseField(values, 6),
      longitude |-> ParseField(values, 7),
      power |-> Abs(ParseField(values, 8)),
      speed |-> ParseField(values, 1),
      odometer |-> ParseField(values, 2) ]

HandleFrame_CloseSkipped(v, f) ==
    IF f.kind # "binary" THEN [ kind |-> "continue" ]
    ELSE IF ~f.json THEN [ kind |-> "Err", error |-> "json" ]
    ELSE IF ~IsSome(f.msg_type) THEN [ kind |-> "continue" ]
    ELSE IF Unwrap(f.msg_type) = "data:update"
         THEN IF ~f.envelope THEN [ kind |-> "Err", error |-> "json" ]
              ELSE IF f.tag # v.vehicle_id THEN [ kind |-> "continue" ]
              ELSE IF Len(f.values) # EXPECTED_VALUES THEN [ kind |-> "continue" ]
              ELSE [ kind |-> "Ok", data |-> DecodeStreamingData(f.values) ]
    ELSE IF Unwrap(f.msg_type) = "data:error"
         THEN [ kind |-> "Err", error |-> "data:error" ]
    ELSE [ kind |-> "continue" ]

HandleFrame_AnyCount(v, f) ==
    IF f.kind = "close" THEN [ kind |-> "Err", error |-> "close" ]
    ELSE IF f.kind # "binary" THEN [ kind |-> "continue" ]
    ELSE IF ~f.json THEN [ kind |-> "Err", error |-> "json" ]
    ELSE IF ~IsSome(f.msg_type) THEN [ kind |-> "continue" ]
    ELSE IF Unwrap(f.msg_type) = "data:update"
         THEN IF ~f.envelope THEN [ kind |-> "Err", error |-> "json" ]
              ELSE IF f.tag # v.vehicle_id THEN [ kind |-> "continue" ]
              ELSE [ kind |-> "Ok", data |-> DecodeStreamingData(f.values) ]
    ELSE IF Unwrap(f.msg_type) = "data:error"
         THEN [ kind |-> "Err", error |-> "data:error" ]
    ELSE [ kind |-> "continue" ]

HandleFrame_TextDecoded(v, f) ==
    IF f.kind = "close" THEN [ kind |-> "Err", error |-> "close" ]
    ELSE IF f.kind \notin { "binary", "text" } THEN [ kind |-> "continue" ]
    ELSE IF ~f.json THEN [ kind |-> "Err", error |-> "json" ]
    ELSE IF ~IsSome(f.msg_type) THEN [ kind |-> "continue" ]
    ELSE IF Unwrap(f.msg_type) = "data:update"
         THEN IF ~f.envelope THEN [ kind |-> "Err", error |-> "json" ]
              ELSE IF f.tag # v.vehicle_id THEN [ kind |-> "continue" ]
              ELSE IF Len(f.values) # EXPECTED_VALUES THEN [ kind |-> "continue" ]
              ELSE [ kind |-> "Ok", data |-> DecodeStreamingData(f.values) ]
    ELSE IF Unwrap(f.msg_type) = "data:error"
         THEN [ kind |-> "Err", error |-> "data:error" ]
    ELSE [ kind |-> "continue" ]

\* lines 372-445: what one received frame does to the read loop:
\* "continue", an error, or the decoded sample
HandleFrame(v, f) ==
    IF f.kind = "close" THEN [ kind |-> "Err", error |-> "close" ]
    ELSE IF f.kind # "binary" THEN [ kind |-> "continue" ]
    ELSE IF ~f.json THEN [ kind |-> "Err", error |-> "json" ]
    ELSE IF ~IsSome(f.msg_type) THEN [ kind |-> "continue" ]
    ELSE IF Unwrap(f.msg_type) = "data:update"
         THEN IF ~f.envelope THEN [ kind |-> "Err", error |-> "json" ]
              ELSE IF f.tag # v.vehicle_id THEN [ kind |-> "continue" ]
              ELSE IF Len(f.values) # EXPECTED_VALUES THEN [ kind |-> "continue" ]
              ELSE [ kind |-> "Ok", data |-> DecodeStreamingData(f.values) ]
    ELSE IF Unwrap(f.msg_type) = "data:error"
         THEN [ kind |-> "Err", error |-> "data:error" ]
    ELSE [ kind |-> "continue" ]

\* line 365
TimedOut(ms) == ms \div MILLIS_PER_SEC > TIMEOUT_SECS

\* line 90: miles to meters
MilesToMeters(miles) == (miles * METERS_PER_MILE_X1000) \div 1000

NeedsVehicleData_PowerOnly(data, last) == data.power > 0

NeedsVehicleData_Always(data, last) == TRUE

NeedsVehicleData_NoOdometer(data, last) ==
    data.power > 0 \/ data.speed > 0 \/ last.charger_power > 0

\* lines 93-96: whether get_vehicle_data is called
NeedsVehicleData(data, last) ==
    \/ data.power > 0
    \/ data.speed > 0
    \/ MilesToMeters(data.odometer) - last.odometer > 0
    \/ last.charger_power > 0

ChargeValues_AbsentResets(data, last) ==
    IF IsSome(data.charge_state)
       /\ Unwrap(data.charge_state).charge_port_latch = "Engaged"
    THEN [ charge_energy_added |->
             Unwrap(data.charge_state).charge_energy_added
                 * WATT_PER_KW * SECONDS_PER_HOUR,
           charger_power |->
             Unwrap(data.charge_state).charger_power * WATT_PER_KW ]
    ELSE [ charge_energy_added |-> 0, charger_power |-> 0 ]

ChargeValues_OtherLatchKeeps(data, last) ==
    IF IsSome(data.charge_state)
       /\ Unwrap(data.charge_state).charge_port_latch = "Engaged"
    THEN [ charge_energy_added |->
             Unwrap(data.charge_state).charge_energy_added
                 * WATT_PER_KW * SECONDS_PER_HOUR,
           charger_power |->
             Unwrap(data.charge_state).charger_power * WATT_PER_KW ]
    ELSE [ charge_energy_added |-> last.charge_energy_added, charger_power |-> 0 ]

ChargeValues_Accumulates(data, last) ==
    IF IsSome(data.charge_state)
    THEN IF Unwrap(data.charge_state).charge_port_latch = "Engaged"
         THEN [ charge_energy_added |->
                  last.charge_energy_added
                    + Unwrap(data.charge_state).charge_energy_added
                        * WATT_PER_KW * SECONDS_PER_HOUR,
                charger_power |->
                  Unwrap(data.charge_state).charger_power * WATT_PER_KW ]
         ELSE [ charge_energy_added |-> 0, charger_power |-> 0 ]
    ELSE [ charge_energy_added |-> last.charge_energy_added, charger_power |-> 0 ]

\* lines 104-115
ChargeValues(data, last) ==
    IF IsSome(data.charge_state)
    THEN IF Unwrap(data.charge_state).charge_port_latch = "Engaged"
         THEN [ charge_energy_added |->
                  Unwrap(data.charge_state).charge_energy_added
                      * WATT_PER_KW * SECONDS_PER_HOUR,
                charger_power |->
                  Unwrap(data.charge_state).charger_power * WATT_PER_KW ]
         ELSE [ charge_energy_added |-> 0, charger_power |-> 0 ]
    ELSE [ charge_energy_added |-> last.charge_energy_added, charger_power |-> 0 ]

NotAwake_IgnoresInService(v) == v.state = Asleep \/ v.state = Offline

NotAwake_UnknownSleeps(v) ==
    v.in_service \/ v.state.kind \notin { "Online", "Updating" }

\* lines 44-47
NotAwake(v) == v.in_service \/ v.state = Asleep \/ v.state = Offline

NotAwakeAvailability_OfflineFirst(v) ==
    IF v.state = Offline THEN -1 ELSE IF v.in_service THEN -2 ELSE 0

\* lines 51-57
NotAwakeAvailability(v) ==
    IF v.in_service THEN -2 ELSE IF v.state = Offline THEN -1 ELSE 0

\* lines 79-87
LocationOf(data) ==
    LET g == in_geofence(data, config.geofences)
    IN  IF IsSome(g) THEN Unwrap(g).location ELSE LOCATION_OTHER

RetryExhausted_OneMore(n) == n > RETRY_TAKES + 1

\* retry(): after the n-th failed attempt the delay iterator, which holds
\* RETRY_TAKES delays, is asked for the n-th delay
RetryExhausted(n) == n > RETRY_TAKES

----------------------------------------------------------------------------
(* State *)

NoCalls ==
    [ token |-> 0,
      vehicle |-> [ i \in 1..Len(config.vehicle_ids) |-> 0 ],
      stream |-> [ i \in 1..Len(config.vehicle_ids) |-> 0 ],
      rest |-> [ i \in 1..Len(config.vehicle_ids) |-> 0 ] ]

NoResult == [ kind |-> "none", value |-> << >>, error |-> "" ]

\* what the external store can hold before the first cycle: nothing, the
\* measurement an earlier run emitted for the vehicle named Tessie, or one
\* of that vehicle without the samples get_last_values looks for
PriorVehicle ==
    [ id |-> 1, vehicle_id |-> 11, display_name |-> Some("Tessie"),
      state |-> Asleep, in_service |-> FALSE ]

\* a measurement of the vehicle that holds none of the samples read back
PartialPrior ==
    [ source |-> EXPORTER_NAME, location |-> "Work",
      samples |-> << Sample("Availability", DisplayNameOf(PriorVehicle), "Gauge", 1) >> ]

InitialPriors ==
    { None, Some(<< PartialPrior >>) }
    \cup { Some(<< BuildMeasurement(PriorVehicle, "Home", cp, 5000, 201168, 1) >>) :
             cp \in { 0, 11000 } }

Init ==
    /\ config \in { [ geofences |-> ConfigGeofences, vehicle_ids |-> ids ] :
                      ids \in ConfigVehicleIds }
    /\ pc = "idle"
    /\ cycle = 0
    /\ last_measurements \in InitialPriors
    /\ measurements = << >>
    /\ token = None
    /\ vidx = 1
    /\ vehicle = None
    /\ streaming_data = None
    /\ vehicle_data = None
    /\ tries = 0
    /\ last_error = ""
    /\ elapsed = 0
    /\ stream = "live"
    /\ calls = NoCalls
    /\ result = NoResult
    /\ msg = None

----------------------------------------------------------------------------
(* get_measurements, lines 26-201 *)

\* the scheduler calls get_measurements with what the last cycle returned
\* (the store keeps the older measurements when the cycle failed); the
\* model follows whole cycles of at most MaxIterations vehicle iterations
StartCycle ==
    /\ pc = "idle"
    /\ (cycle + 1) * Len(config.vehicle_ids) <= MaxIterations
    /\ cycle' = cycle + 1
    /\ UNCHANGED config
    /\ last_measurements' =
         IF result.kind = "Ok" THEN Some(result.value) ELSE last_measurements
    /\ measurements' = << >>
    /\ token' = None
    /\ vidx' = 1
    /\ vehicle' = None
    /\ streaming_data' = None
    /\ vehicle_data' = None
    /\ tries' = 0
    /\ last_error' = ""
    /\ elapsed' = 0
    /\ stream' = "live"
    /\ calls' = [ NoCalls EXCEPT !.token = 1 ]
    /\ result' = NoResult
    /\ msg' = None
    /\ pc' = "get_access_token"

ReturnErr_ReturnsBuilt(e) ==
    /\ pc' = "idle"
    /\ result' = [ kind |-> "Ok", value |-> measurements, error |-> "" ]
    /\ measurements' = measurements
    /\ tries' = 0
    /\ last_error' = e

\* `?`: get_measurements returns Err(e); the measurements built so far drop
ReturnErr(e) ==
    /\ pc' = "idle"
    /\ result' = [ kind |-> "Err", value |-> << >>, error |-> e ]
    /\ measurements' = << >>
    /\ tries' = 0
    /\ last_error' = e

\* a failed attempt of an HTTP call under retry(), whose error `?` returns
\* once the delays are used up
HttpAttemptFailed(e) ==
    IF RetryExhausted(tries + 1)
    THEN ReturnErr(e)
    ELSE /\ tries' = tries + 1
         /\ last_error' = e
         /\ UNCHANGED << pc, result, measurements >>

\* lines 143-200: push the vehicle's measurement, then the next vehicle or
\* Ok(measurements)
Emit(v, location, charger_power, charge_energy_added, odometer, availability) ==
    /\ measurements' =
         Append(measurements,
                BuildMeasurement(v, location, charger_power, charge_energy_added,
                                 odometer, availability))
    /\ tries' = 0
    /\ IF vidx < Len(config.vehicle_ids)
       THEN /\ vidx' = vidx + 1
            /\ pc' = "get_vehicle"
            /\ calls' = [ calls EXCEPT !.vehicle[vidx + 1] = 1 ]
            /\ UNCHANGED result
       ELSE /\ pc' = "idle"
            /\ result' = [ kind |-> "Ok", value |-> measurements', error |-> "" ]
            /\ UNCHANGED << vidx, calls >>

\* line 33, lines 209-239: one attempt of the token POST
GetAccessTokenFails ==
    /\ pc = "get_access_token"
    /\ msg' = None
    /\ \E e \in HttpErrors : HttpAttemptFailed(e)
    /\ UNCHANGED << config, cycle, last_measurements, token, vidx, vehicle,
                    streaming_data, vehicle_data, elapsed, stream, calls >>

GetAccessTokenUnparsable_Continues ==
    /\ pc = "get_access_token"
    /\ msg' = None
    /\ pc' = "get_vehicle"
    /\ tries' = 0
    /\ last_error' = "json"
    /\ calls' = [ calls EXCEPT !.vehicle[vidx] = 1 ]
    /\ UNCHANGED << config, cycle, last_measurements, measurements, token, vidx,
                    vehicle, streaming_data, vehicle_data, elapsed, stream,
                    result >>

\* the POST is answered, and the body is no TeslaAccessToken: .json()? fails
GetAccessTokenUnparsable ==
    /\ pc = "get_access_token"
    /\ msg' = None
    /\ ReturnErr("json")
    /\ UNCHANGED << config, cycle, last_measurements, token, vidx, vehicle,
                    streaming_data, vehicle_data, elapsed, stream, calls >>

GetAccessTokenOk ==
    /\ pc = "get_access_token"
    /\ msg' = None
    /\ token' = Some("access_token")
    /\ pc' = "get_vehicle"
    /\ tries' = 0
    /\ last_error' = ""
    /\ calls' = [ calls EXCEPT !.vehicle[vidx] = 1 ]
    /\ UNCHANGED << config, cycle, last_measurements, measurements, vidx, vehicle,
                    streaming_data, vehicle_data, elapsed, stream, result >>

\* line 38, lines 267-294: one attempt of the vehicle GET
GetVehicleFails ==
    /\ pc = "get_vehicle"
    /\ msg' = None
    /\ \E e \in HttpErrors : HttpAttemptFailed(e)
    /\ UNCHANGED << config, cycle, last_measurements, token, vidx, vehicle,
                    streaming_data, vehicle_data, elapsed, stream, calls >>

GetVehicleUnparsable ==
    /\ pc = "get_vehicle"
    /\ msg' = None
    /\ ReturnErr("json")
    /\ UNCHANGED << config, cycle, last_measurements, token, vidx, vehicle,
                    streaming_data, vehicle_data, elapsed, stream, calls >>

\* lines 38-66: the vehicle is fetched; asleep, offline or in service it is
\* not queried and its measurement repeats the last values
GetVehicleNotAwake ==
    /\ pc = "get_vehicle"
    /\ msg' = None
    /\ \E v \in VehicleResponses(config.vehicle_ids[vidx]) :
         /\ NotAwake(v)
         /\ vehicle' = Some(v)
         /\ LET last == get_last_values(last_measurements, v)
            IN  Emit(v, last.location, 0, last.charge_energy_added,
                     last.odometer, NotAwakeAvailability(v))
    /\ streaming_data' = None
    /\ vehicle_data' = None
    /\ last_error' = ""
    /\ UNCHANGED << config, cycle, last_measurements, token, elapsed, stream >>

\* lines 38-75: the vehicle is fetched and awake; the probe is started
GetVehicleAwake ==
    /\ pc = "get_vehicle"
    /\ msg' = None
    /\ \E v \in VehicleResponses(config.vehicle_ids[vidx]) :
         /\ ~NotAwake(v)
         /\ vehicle' = Some(v)
    /\ streaming_data' = None
    /\ vehicle_data' = None
    /\ pc' = "get_streaming_data"
    /\ tries' = 0
    /\ last_error' = ""
    /\ calls' = [ calls EXCEPT !.stream[vidx] = 1 ]
    /\ UNCHANGED << config, cycle, last_measurements, measurements, token, vidx,
                    elapsed, stream, result >>

----------------------------------------------------------------------------
(* get_streaming_data, lines 339-447, under retry() at lines 70-75 *)

LastValues == get_last_values(last_measurements, Unwrap(vehicle))

ProbeAttemptFailed_Propagates(n, e) ==
    /\ elapsed' = 0
    /\ stream' = "live"
    /\ IF RetryExhausted(n)
       THEN /\ ReturnErr(e)
            /\ UNCHANGED << vidx, calls >>
       ELSE /\ last_error' = e
            /\ pc' = "get_streaming_data"
            /\ tries' = n
            /\ UNCHANGED << measurements, vidx, calls, result >>

\* the n-th attempt of the probe ended in error e: retry() sleeps and calls
\* get_streaming_data again, or, its delays used up, returns the error to
\* the Err arm of lines 128-139
ProbeAttemptFailed(n, e) ==
    /\ last_error' = e
    /\ elapsed' = 0
    /\ stream' = "live"
    /\ IF RetryExhausted(n)
       THEN Emit(Unwrap(vehicle), LastValues.location, 0,
                 LastValues.charge_energy_added, LastValues.odometer, 0)
       ELSE /\ pc' = "get_streaming_data"
            /\ tries' = n
            /\ UNCHANGED << measurements, vidx, calls, result >>

\* lines 76-126: the probe returned a sample
ProbeSucceeded(data) ==
    /\ streaming_data' = Some(data)
    /\ last_error' = ""
    /\ elapsed' = 0
    /\ stream' = "live"
    /\ IF NeedsVehicleData(data, LastValues)
       THEN /\ pc' = "get_vehicle_data"
            /\ tries' = 0
            /\ calls' = [ calls EXCEPT !.rest[vidx] = @ + 1 ]
            /\ UNCHANGED << measurements, vidx, result >>
       ELSE Emit(Unwrap(vehicle), LocationOf(data), 0,
                 LastValues.charge_energy_added, MilesToMeters(data.odometer), 1)

\* lines 349-363: connect and subscribe
ProbeConnectFails ==
    /\ pc = "get_streaming_data"
    /\ msg' = None
    /\ ProbeAttemptFailed(tries + 1, "connect")
    /\ UNCHANGED << config, cycle, last_measurements, token, vehicle, streaming_data,
                    vehicle_data >>

ProbeConnectOk ==
    /\ pc = "get_streaming_data"
    /\ msg' = None
    /\ tries' = tries + 1
    /\ elapsed' = 0
    /\ stream' = "live"
    /\ pc' = "probe_loop"
    /\ last_error' = ""
    /\ UNCHANGED << config, cycle, last_measurements, measurements, token, vidx,
                    vehicle, streaming_data, vehicle_data, calls, result >>

\* lines 365-367
ProbeTimeout ==
    /\ pc = "probe_loop"
    /\ msg' = None
    /\ TimedOut(elapsed)
    /\ ProbeAttemptFailed(tries, "timeout")
    /\ UNCHANGED << config, cycle, last_measurements, token, vehicle, streaming_data,
                    vehicle_data >>

\* line 369: socket.read_message() is entered
ProbeReadStart ==
    /\ pc = "probe_loop"
    /\ msg' = None
    /\ ~TimedOut(elapsed)
    /\ pc' = "probe_read"
    /\ UNCHANGED << config, cycle, last_measurements, measurements, token, vidx,
                    vehicle, streaming_data, vehicle_data, tries, last_error,
                    elapsed, stream, calls, result >>

\* line 369: read_message()? fails (the connection broke)
ProbeReadError ==
    /\ pc = "probe_read"
    /\ msg' = None
    /\ stream = "live"
    /\ ProbeAttemptFailed(tries, "io")
    /\ UNCHANGED << config, cycle, last_measurements, token, vehicle, streaming_data,
                    vehicle_data >>

\* lines 369-445: read_message() returns a frame that the loop skips
ProbeReadSkip ==
    /\ pc = "probe_read"
    /\ stream = "live"
    /\ \E f \in Frames(Unwrap(vehicle)) :
         /\ HandleFrame(Unwrap(vehicle), f).kind = "continue"
         /\ msg' = Some(Received(f))
    /\ pc' = "probe_loop"
    /\ UNCHANGED << config, cycle, last_measurements, measurements, token, vidx,
                    vehicle, streaming_data, vehicle_data, tries, last_error,
                    elapsed, stream, calls, result >>

\* a frame that ends the attempt with an error
ProbeReadFails ==
    /\ pc = "probe_read"
    /\ stream = "live"
    /\ \E f \in Frames(Unwrap(vehicle)) :
         LET r == HandleFrame(Unwrap(vehicle), f)
         IN  /\ r.kind = "Err"
             /\ msg' = Some(Received(f))
             /\ ProbeAttemptFailed(tries, r.error)
    /\ UNCHANGED << config, cycle, last_measurements, token, vehicle, streaming_data,
                    vehicle_data >>

\* a frame that is decoded and returned
ProbeReadData ==
    /\ pc = "probe_read"
    /\ stream = "live"
    /\ \E f \in Frames(Unwrap(vehicle)) :
         LET r == HandleFrame(Unwrap(vehicle), f)
         IN  /\ r.kind = "Ok"
             /\ msg' = Some(Received(f))
             /\ ProbeSucceeded(r.data)
    /\ UNCHANGED << config, cycle, last_measurements, token, vehicle, vehicle_data >>

\* the wall clock behind start.elapsed()
Tick ==
    /\ pc \in { "probe_loop", "probe_read" }
    /\ msg' = msg
    /\ ~TimedOut(elapsed)
    /\ elapsed' = elapsed + TickMillis
    /\ UNCHANGED << config, pc, cycle, last_measurements, measurements, token, vidx,
                    vehicle, streaming_data, vehicle_data, tries, last_error,
                    stream, calls, result >>

\* the streaming server keeps the connection open and sends nothing more
ServerSilent ==
    /\ pc = "probe_read"
    /\ msg' = msg
    /\ stream = "live"
    /\ stream' = "silent"
    /\ UNCHANGED << config, pc, cycle, last_measurements, measurements, token, vidx,
                    vehicle, streaming_data, vehicle_data, tries, last_error,
                    elapsed, calls, result >>

----------------------------------------------------------------------------
(* get_vehicle_data, lines 296-337, called at line 100 *)

GetVehicleDataFails_FallsBack ==
    /\ pc = "get_vehicle_data"
    /\ msg' = None
    /\ \E e \in HttpErrors :
         /\ last_error' = e
         /\ IF RetryExhausted(tries + 1)
            THEN Emit(Unwrap(vehicle), LocationOf(Unwrap(streaming_data)), 0,
                      LastValues.charge_energy_added,
                      MilesToMeters(Unwrap(streaming_data).odometer), 1)
            ELSE /\ tries' = tries + 1
                 /\ UNCHANGED << pc, result, measurements, vidx, calls >>
    /\ UNCHANGED << config, cycle, last_measurements, token, vehicle,
                    streaming_data, vehicle_data, elapsed, stream >>

GetVehicleDataFails ==
    /\ pc = "get_vehicle_data"
    /\ msg' = None
    /\ \E e \in HttpErrors : HttpAttemptFailed(e)
    /\ UNCHANGED << config, cycle, last_measurements, token, vidx, vehicle,
                    streaming_data, vehicle_data, elapsed, stream, calls >>

GetVehicleDataUnparsable ==
    /\ pc = "get_vehicle_data"
    /\ msg' = None
    /\ ReturnErr("json")
    /\ UNCHANGED << config, cycle, last_measurements, token, vidx, vehicle,
                    streaming_data, vehicle_data, elapsed, stream, calls >>

\* lines 100-126: the vehicle data is fetched and the measurement built
GetVehicleDataOk ==
    /\ pc = "get_vehicle_data"
    /\ msg' = None
    /\ \E d \in VehicleDataResponses :
         /\ vehicle_data' = Some(d)
         /\ LET cv == ChargeValues(d, LastValues)
                sd == Unwrap(streaming_data)
            IN  Emit(Unwrap(vehicle), LocationOf(sd), cv.charger_power,
                     cv.charge_energy_added, MilesToMeters(sd.odometer), 1)
    /\ last_error' = ""
    /\ UNCHANGED << config, cycle, last_measurements, token, vehicle, streaming_data,
                    elapsed, stream >>

----------------------------------------------------------------------------

Step ==
    \/ GetAccessTokenFails
    \/ GetAccessTokenUnparsable
    \/ GetAccessTokenOk
    \/ GetVehicleFails
    \/ GetVehicleUnparsable
    \/ GetVehicleNotAwake
    \/ GetVehicleAwake
    \/ ProbeConnectFails
    \/ ProbeConnectOk
    \/ ProbeTimeout
    \/ ProbeReadStart
    \/ ProbeReadError
    \/ ProbeReadSkip
    \/ ProbeReadFails
    \/ ProbeReadData
    \/ GetVehicleDataFails
    \/ GetVehicleDataUnparsable
    \/ GetVehicleDataOk

Next == StartCycle \/ Step \/ Tick \/ ServerSilent

Spec == Init /\ [][Next]_vars

\* the program runs when it can and the clock advances; nothing obliges the
\* streaming server to send a frame
FairSpec == Spec /\ WF_vars(Step) /\ WF_vars(Tick)

----------------------------------------------------------------------------
(* Properties *)

\* the vehicle of the latest loop iteration and its place in vehicle_ids
Cur == Unwrap(vehicle)
CurIdx == Cur.id

\* the measurement of that vehicle has been pushed
Emitted ==
    /\ pc \in { "get_vehicle", "idle" }
    /\ IsSome(vehicle)
    /\ Len(measurements) = CurIdx

CurMeasurement == measurements[CurIdx]

\* the value of the one sample of a type and metric in a measurement
ValueOf(m, sample_type, metric_type) ==
    LET i == CHOOSE i \in 1..Len(m.samples) :
                 /\ m.samples[i].sample_type = sample_type
                 /\ m.samples[i].metric_type = metric_type
    IN  m.samples[i].value

PowerGauge(m) == ValueOf(m, "ElectricityConsumption", "Gauge")
EnergyCounter(m) == ValueOf(m, "ElectricityConsumption", "Counter")
OdometerCounter(m) == ValueOf(m, "DistanceTraveled", "Counter")
Availability(m) == ValueOf(m, "Availability", "Gauge")

InServiceAsleepOrOffline(v) ==
    v.in_service \/ v.state.kind = "Asleep" \/ v.state.kind = "Offline"

ProbePcs == { "get_streaming_data", "probe_loop", "probe_read" }

\* C1: a vehicle that is in service, asleep or offline is neither probed nor
\* fetched in the cycle, and its measurement repeats the location, the
\* charge-energy-added counter and the odometer counter read from the prior
\* measurement, with power gauge 0.
C1_NotAwakeCarriesForward ==
    (Emitted /\ InServiceAsleepOrOffline(Cur)) =>
        /\ calls.stream[CurIdx] = 0
        /\ calls.rest[CurIdx] = 0
        /\ streaming_data = None
        /\ vehicle_data = None
        /\ CurMeasurement.location = LastValues.location
        /\ EnergyCounter(CurMeasurement) = LastValues.charge_energy_added
        /\ OdometerCounter(CurMeasurement) = LastValues.odometer
        /\ PowerGauge(CurMeasurement) = 0

C1_Witness ==
    /\ Emitted
    /\ Cur.state.kind = "Asleep"
    /\ ~Cur.in_service
    /\ EnergyCounter(CurMeasurement) = 5000
    /\ OdometerCounter(CurMeasurement) = 201168
    /\ CurMeasurement.location = "Home"

\* the guard of the claim, on the streamed sample and the carried values
Activity(data, last) ==
    \/ data.power > 0
    \/ data.speed > 0
    \/ (data.odometer * METERS_PER_MILE_X1000) \div 1000 > last.odometer
    \/ last.charger_power > 0

\* C2: get_vehicle_data is called for a vehicle at most once in a cycle, only
\* after its probe returned a sample, and exactly when the streamed power or
\* speed is positive, the streamed odometer in meters exceeds the prior
\* odometer counter or the prior power gauge is positive; otherwise the
\* measurement carries the prior energy counter and power gauge 0.
C2_RestOnlyOnActivity ==
    IsSome(vehicle) =>
        /\ calls.rest[CurIdx] <= 1
        /\ calls.rest[CurIdx] = 1 => IsSome(streaming_data)
        /\ IsSome(streaming_data) =>
             (calls.rest[CurIdx] = 1 <=> Activity(Unwrap(streaming_data), LastValues))
        /\ (Emitted /\ IsSome(streaming_data)
                /\ ~Activity(Unwrap(streaming_data), LastValues)) =>
             /\ EnergyCounter(CurMeasurement) = LastValues.charge_energy_added
             /\ PowerGauge(CurMeasurement) = 0

\* the fetch is made for a parked, idle vehicle whose last power gauge was > 0
C2_Witness ==
    /\ IsSome(vehicle)
    /\ IsSome(streaming_data)
    /\ calls.rest[CurIdx] = 1
    /\ Unwrap(streaming_data).power = 0
    /\ Unwrap(streaming_data).speed = 0
    /\ MilesToMeters(Unwrap(streaming_data).odometer) = LastValues.odometer
    /\ LastValues.charger_power > 0

\* C3 as claimed: from the prior measurement to the emitted one, neither the
\* charge-energy-added counter nor the odometer counter decreases.
C3_CountersNeverDecrease ==
    Emitted =>
        /\ EnergyCounter(CurMeasurement) >= LastValues.charge_energy_added
        /\ OdometerCounter(CurMeasurement) >= LastValues.odometer

\* C3 as amended: the energy counter does not decrease unless a fetched
\* charge state replaced it, and the odometer counter does not decrease
\* unless the stream reported a lower odometer.
C3_CountersDecreaseOnlyOnFreshData ==
    Emitted =>
        /\ (vehicle_data = None \/ Unwrap(vehicle_data).charge_state = None) =>
             EnergyCounter(CurMeasurement) >= LastValues.charge_energy_added
        /\ (streaming_data = None
               \/ MilesToMeters(Unwrap(streaming_data).odometer)
                    >= LastValues.odometer) =>
             OdometerCounter(CurMeasurement) >= LastValues.odometer

\* a second cycle whose fetch came back without a charge state keeps the
\* counter of the first cycle
C3_Witness ==
    /\ Emitted
    /\ cycle = 2
    /\ IsSome(vehicle_data)
    /\ Unwrap(vehicle_data).charge_state = None
    /\ LastValues.charge_energy_added = 2 * WATT_PER_KW * SECONDS_PER_HOUR
    /\ EnergyCounter(CurMeasurement) = LastValues.charge_energy_added

\* C4: when the probe of an awake vehicle leaves without a sample, the cycle
\* goes on: a measurement with the carried location and counters, power
\* gauge 0 and availability 0 is pushed, and get_vehicle_data is not called.
C4_ProbeFailureFallsBack ==
    [][ (pc \in ProbePcs /\ pc' \notin ProbePcs /\ streaming_data' = None) =>
          /\ result'.kind # "Err"
          /\ Len(measurements') = Len(measurements) + 1
          /\ calls'.rest[vidx] = 0
          /\ LET m == measurements'[Len(measurements')]
             IN  /\ m.location = LastValues.location
                 /\ EnergyCounter(m) = LastValues.charge_energy_added
                 /\ OdometerCounter(m) = LastValues.odometer
                 /\ PowerGauge(m) = 0
                 /\ Availability(m) = 0 ]_vars

C4_Witness ==
    /\ Emitted
    /\ ~InServiceAsleepOrOffline(Cur)
    /\ streaming_data = None
    /\ last_error = "timeout"
    /\ calls.stream[CurIdx] = 1
    /\ EnergyCounter(CurMeasurement) = 5000
    /\ Availability(CurMeasurement) = 0

\* get_vehicle_data was called for the latest vehicle and gave no data
RestFailed ==
    /\ pc = "idle"
    /\ IsSome(vehicle)
    /\ calls.rest[CurIdx] = 1
    /\ vehicle_data = None

\* C5 as claimed: after a failed get_vehicle_data the cycle still returns a
\* measurement for the vehicle.
C5_RestFailureFallsBack ==
    RestFailed => (result.kind = "Ok" /\ Len(result.value) >= CurIdx)

\* C5 as amended: a failed get_vehicle_data ends the cycle with that error
\* and without any measurement.
C5_RestFailureAbortsCycle ==
    RestFailed =>
        /\ result.kind = "Err"
        /\ result.error = last_error
        /\ result.value = << >>
        /\ measurements = << >>

\* the second vehicle's fetch fails after the first vehicle was measured
C5_Witness ==
    /\ RestFailed
    /\ CurIdx = 2
    /\ result.error \in HttpErrors

\* C6 as claimed: a probe attempt that is in its read loop leaves it.
C6_ProbeReturns ==
    (pc \in { "probe_loop", "probe_read" }) ~> (pc \notin { "probe_loop", "probe_read" })

\* C7: a retried call is attempted at most RETRY_TAKES + 1 times; a failed
\* attempt is followed by another only while delays are left, and the error
\* the cycle returns is the error of the last attempt.
C7_RetryBounded ==
    /\ tries <= RETRY_TAKES + 1
    /\ pc \in { "get_access_token", "get_vehicle", "get_vehicle_data",
                "get_streaming_data" } => tries <= RETRY_TAKES
    /\ (pc = "idle" /\ result.kind = "Err") => result.error = last_error

\* the fourth attempt of the probe is running
C7_Witness ==
    /\ pc = "probe_read"
    /\ tries = RETRY_TAKES + 1
    /\ last_error = ""

\* the four samples of a vehicle's measurement
IsWhole(m) ==
    /\ Len(m.samples) = 4
    /\ { << m.samples[i].sample_type, m.samples[i].metric_type >> :
           i \in 1..Len(m.samples) }
         = { << "ElectricityConsumption", "Gauge" >>,
             << "ElectricityConsumption", "Counter" >>,
             << "DistanceTraveled", "Counter" >>,
             << "Availability", "Gauge" >> }
    /\ \A i, j \in 1..Len(m.samples) :
           m.samples[i].sample_name = m.samples[j].sample_name

\* C8: every measurement built or returned holds all four samples of its
\* vehicle, and a cycle that returns an error returns no measurement.
C8_NoPartialMeasurement ==
    /\ \A i \in 1..Len(measurements) : IsWhole(measurements[i])
    /\ \A i \in 1..Len(result.value) : IsWhole(result.value[i])
    /\ result.kind = "Err" => result.value = << >>
    /\ result.kind = "Ok" => Len(result.value) = Len(config.vehicle_ids)

\* the cycle fails at the second vehicle after the first was measured
C8_Witness ==
    /\ pc = "idle"
    /\ result.kind = "Err"
    /\ Len(config.vehicle_ids) = 2
    /\ calls.vehicle[2] = 1
    /\ IsSome(vehicle)
    /\ CurIdx = 1

\* C9: without a token no vehicle, streaming or telemetry call is made and no
\* measurement is built or returned; a cycle that failed to get the token
\* returns an error.
C9_TokenFirst ==
    token = None =>
        /\ \A i \in 1..Len(config.vehicle_ids) :
               calls.vehicle[i] = 0 /\ calls.stream[i] = 0 /\ calls.rest[i] = 0
        /\ measurements = << >>
        /\ result.kind # "Ok"
        /\ pc \in { "idle", "get_access_token" }
        /\ (pc = "idle" /\ cycle > 0) => result.kind = "Err"

C9_Witness ==
    /\ pc = "idle"
    /\ cycle = 2
    /\ token = None
    /\ result.kind = "Err"
    /\ result.error = "json"

\* C10: the availability sample is -2 for a vehicle in service, else -1 if
\* offline, else 0 if asleep, else 1 if the probe returned a sample and 0 if
\* it did not.
C10_AvailabilityTable ==
    Emitted =>
        /\ Availability(CurMeasurement) =
             IF Cur.in_service THEN -2
             ELSE IF Cur.state.kind = "Offline" THEN -1
             ELSE IF Cur.state.kind = "Asleep" THEN 0
             ELSE IF IsSome(streaming_data) THEN 1 ELSE 0
        /\ Availability(CurMeasurement) \in { -2, -1, 0, 1 }

C10_Witness ==
    /\ Emitted
    /\ Cur.in_service
    /\ Cur.state.kind = "Offline"
    /\ Availability(CurMeasurement) = -2

----------------------------------------------------------------------------

\* the positions in the configured list of the regions whose center is
\* strictly nearer to the point than their radius
RegionsAround(data) ==
    { i \in 1..Len(config.geofences) :
        LET g == config.geofences[i]
            dlat == data.latitude - g.latitude
            dlon == data.longitude - g.longitude
        IN  dlat * dlat + dlon * dlon
              < g.geofence_radius_meters * g.geofence_radius_meters }

\* C11: in_geofence returns the first region in configured order whose center
\* is strictly nearer to the point than its radius, also when a later region
\* holds the point or is nearer, and None when no region holds it; after a
\* successful probe the measurement's location is that region's name, or
\* "Other" when there is none.
C11_FirstRegionWins ==
    IsSome(streaming_data) =>
        LET data == Unwrap(streaming_data)
            around == RegionsAround(data)
            first == CHOOSE i \in around : \A j \in around : i <= j
        IN  /\ in_geofence(data, config.geofences) =
                 IF around = {} THEN None ELSE Some(config.geofences[first])
            /\ Emitted =>
                 CurMeasurement.location =
                   IF around = {} THEN "Other" ELSE config.geofences[first].location

\* the point is inside both regions and nearer to the second one's center
C11_Witness ==
    /\ Emitted
    /\ IsSome(streaming_data)
    /\ RegionsAround(Unwrap(streaming_data)) = { 1, 2 }
    /\ Abs(Unwrap(streaming_data).latitude - config.geofences[2].latitude)
         < Abs(Unwrap(streaming_data).latitude - config.geofences[1].latitude)
    /\ CurMeasurement.location = config.geofences[1].location

----------------------------------------------------------------------------

\* the positions of the prior measurements that hold a sample named name
PriorsNamed(name) ==
    IF last_measurements = None THEN {}
    ELSE { i \in 1..Len(Unwrap(last_measurements)) :
             \E j \in 1..Len(Unwrap(last_measurements)[i].samples) :
                 Unwrap(last_measurements)[i].samples[j].sample_name = name }

\* value is read from a sample of m with that name and those types, or is 0
\* when m holds no such sample
CarriedFrom(m, name, sample_type, metric_type, value) ==
    LET matching == { j \in 1..Len(m.samples) :
                        /\ m.samples[j].sample_name = name
                        /\ m.samples[j].sample_type = sample_type
                        /\ m.samples[j].metric_type = metric_type }
    IN  IF matching = {} THEN value = 0
        ELSE \E j \in matching : value = m.samples[j].value

----------------------------------------------------------------------------

\* the measurement of an awake vehicle is built from a streamed sample with
\* power 0, speed 0 and the odometer of the prior measurement, and the prior
\* energy counter is 5000
IdleSampleOnPrior5000 ==
    /\ Emitted
    /\ ~InServiceAsleepOrOffline(Cur)
    /\ IsSome(streaming_data)
    /\ Unwrap(streaming_data).power = 0
    /\ Unwrap(streaming_data).speed = 0
    /\ (Unwrap(streaming_data).odometer * METERS_PER_MILE_X1000) \div 1000
         = LastValues.odometer
    /\ LastValues.charge_energy_added = 5000

\* C13 as claimed: whatever the prior power gauge and the REST response, that
\* measurement has energy counter 5000 and power gauge 0.
C13_IdleKeepsCounterAnyPriorGauge ==
    IdleSampleOnPrior5000 =>
        /\ EnergyCounter(CurMeasurement) = 5000
        /\ PowerGauge(CurMeasurement) = 0

\* C13 as amended: when the prior power gauge is not positive, no REST fetch
\* is made and that measurement has energy counter 5000 and power gauge 0.
C13_IdleKeepsCounterPriorGaugeZero ==
    (IdleSampleOnPrior5000 /\ LastValues.charger_power <= 0) =>
        /\ calls.rest[CurIdx] = 0
        /\ EnergyCounter(CurMeasurement) = 5000
        /\ PowerGauge(CurMeasurement) = 0

C13_Witness ==
    /\ IdleSampleOnPrior5000
    /\ LastValues.charger_power = 0
    /\ Cur.state.kind = "Online"
    /\ EnergyCounter(CurMeasurement) = 5000
    /\ PowerGauge(CurMeasurement) = 0

----------------------------------------------------------------------------

\* a measurement was built from a streamed sample whose power is 0
ReconciledAtPowerZero ==
    /\ Emitted
    /\ IsSome(streaming_data)
    /\ Unwrap(streaming_data).power = 0

\* the energy counter that reconciling the prior values and the sample gives
\* when the telemetry fetch, if one is made, answers d
ReplayedEnergy(data, last, d) ==
    IF NeedsVehicleData(data, last)
    THEN ChargeValues(d, last).charge_energy_added
    ELSE last.charge_energy_added

\* C14 as claimed: the counters of a measurement built from a sample with
\* power 0 are decided by the prior measurement and the sample alone: a
\* replay with the same two, whatever the telemetry fetch answers, gives the
\* same energy and odometer counters.
C14_CountersFromPriorAndSampleAlone ==
    ReconciledAtPowerZero =>
        \A d \in VehicleDataResponses :
            /\ EnergyCounter(CurMeasurement)
                 = ReplayedEnergy(Unwrap(streaming_data), LastValues, d)
            /\ OdometerCounter(CurMeasurement)
                 = MilesToMeters(Unwrap(streaming_data).odometer)

\* C14 as amended: the odometer counter is the streamed odometer in meters;
\* the energy counter is the prior counter when no telemetry fetch is made or
\* the fetched data has no charge state, and otherwise what the charge state
\* gives (0 when the latch is not engaged, else its energy in watt seconds),
\* never the prior counter plus it.
C14_CountersFromPriorSampleAndRest ==
    ReconciledAtPowerZero =>
        /\ OdometerCounter(CurMeasurement)
             = (Unwrap(streaming_data).odometer * METERS_PER_MILE_X1000) \div 1000
        /\ EnergyCounter(CurMeasurement) =
             IF calls.rest[CurIdx] = 0 \/ Unwrap(vehicle_data).charge_state = None
             THEN LastValues.charge_energy_added
             ELSE IF Unwrap(Unwrap(vehicle_data).charge_state).charge_port_latch
                       = "Engaged"
                  THEN Unwrap(Unwrap(vehicle_data).charge_state).charge_energy_added
                         * 3600000
                  ELSE 0
        /\ EnergyCounter(CurMeasurement)
             = ReplayedEnergy(Unwrap(streaming_data), LastValues,
                              IF IsSome(vehicle_data) THEN Unwrap(vehicle_data)
                              ELSE [ charge_state |-> None ])

\* a moving vehicle, power 0: the fetched charge state replaces the prior
\* counter of 5000
C14_Witness ==
    /\ ReconciledAtPowerZero
    /\ Unwrap(streaming_data).speed > 0
    /\ LastValues.charge_energy_added = 5000
    /\ IsSome(vehicle_data)
    /\ IsSome(Unwrap(vehicle_data).charge_state)
    /\ EnergyCounter(CurMeasurement) = 7200000

----------------------------------------------------------------------------

\* no two samples of m share name, sample type and metric type
SamplesUnique(m) ==
    \A i, j \in 1..Len(m.samples) :
        ( /\ m.samples[i].sample_name = m.samples[j].sample_name
          /\ m.samples[i].sample_type = m.samples[j].sample_type
          /\ m.samples[i].metric_type = m.samples[j].metric_type ) => i = j

\* C15: in every measurement built or returned, each display name has at
\* most one Gauge sample and at most one Counter sample per sample type.
C15_OneSamplePerTypeAndMetric ==
    /\ \A k \in 1..Len(measurements) : SamplesUnique(measurements[k])
    /\ \A k \in 1..Len(result.value) : SamplesUnique(result.value[k])

\* a cycle returned the measurements of two vehicles that carry one name
C15_Witness ==
    /\ result.kind = "Ok"
    /\ Len(result.value) = 2
    /\ result.value[1].samples[1].sample_name = result.value[2].samples[1].sample_name
    /\ Len(result.value[2].samples) = 4

----------------------------------------------------------------------------

\* C16 as claimed: the power of every decoded streaming sample is >= 0, and
\* the electricity-consumption Gauge sample of every measurement built or
\* returned is >= 0, whatever charge state the telemetry fetch returned.
C16_PowerNonNegative ==
    /\ IsSome(streaming_data) => Unwrap(streaming_data).power >= 0
    /\ \A k \in 1..Len(measurements) : PowerGauge(measurements[k]) >= 0
    /\ \A k \in 1..Len(result.value) : PowerGauge(result.value[k]) >= 0

----------------------------------------------------------------------------

RecognisedStates == { "offline", "online", "asleep", "updating" }

\* C17: a raw state that is not recognised becomes Other(raw); the step that
\* fetched a vehicle in such a state, and not in service, returns no error
\* and starts the retried streaming probe, as it does for Online and
\* Updating, and every such vehicle has its probe called.
C17_UnknownStateIsAwake ==
    /\ [](\A raw \in RawStates \ RecognisedStates :
             TeslaVehicleStateFrom(raw) = [ kind |-> "Other", raw |-> raw ])
    /\ []((IsSome(vehicle) /\ ~Cur.in_service
              /\ Cur.state.kind \in { "Other", "Online", "Updating" }) =>
            /\ calls.stream[CurIdx] = 1
            /\ Cur.state.kind = "Other" => Cur.state.raw \notin RecognisedStates)
    /\ [][ (vehicle' # vehicle /\ IsSome(vehicle') /\ ~Unwrap(vehicle').in_service
              /\ Unwrap(vehicle').state.kind \in { "Other", "Online", "Updating" }) =>
             /\ pc' = "get_streaming_data"
             /\ tries' = 0
             /\ result' = result
             /\ result'.kind # "Err"
             /\ measurements' = measurements ]_vars

\* the probe of a vehicle reported as "charging" is in its third attempt
C17_Witness ==
    /\ IsSome(vehicle)
    /\ Cur.state = [ kind |-> "Other", raw |-> "charging" ]
    /\ ~Cur.in_service
    /\ pc = "probe_read"
    /\ tries = 3

----------------------------------------------------------------------------

\* a binary frame whose payload is not JSON, or is a data:update that does not
\* decode as an envelope
Malformed(m) ==
    /\ m.kind = "binary"
    /\ ~m.json \/ (m.msg_type = Some("data:update") /\ ~m.envelope)

\* C18 as claimed: when the read loop receives a malformed update message
\* it skips it and reads on; the probe attempt does not end with an error.
C18_MalformedUpdateSkipped ==
    [][ (pc = "probe_read" /\ IsSome(msg') /\ Malformed(Unwrap(msg'))) =>
          /\ pc' = "probe_loop"
          /\ tries' = tries
          /\ last_error' = last_error ]_vars

----------------------------------------------------------------------------

\* a data:update envelope with the vehicle's tag and EXPECTED_VALUES values
ValidUpdate(m) ==
    /\ m.json
    /\ m.msg_type = Some("data:update")
    /\ m.envelope
    /\ m.tag = Cur.vehicle_id
    /\ m.count = 13

\* C19 as claimed: a text frame with such an envelope is decoded and returned
\* as the streaming sample, as a binary frame with it is.
C19_TextUpdateDecoded ==
    [][ (pc = "probe_read" /\ IsSome(msg') /\ ValidUpdate(Unwrap(msg'))
            /\ Unwrap(msg').kind \in { "text", "binary" }) =>
          /\ IsSome(streaming_data')
          /\ pc' \notin ProbePcs ]_vars

\* C19 as amended: only a binary frame with such an envelope is decoded and
\* returned; the same envelope in a text frame is skipped, and the loop reads
\* on without a sample and without an error.
C19_OnlyBinaryUpdateDecoded ==
    [][ (pc = "probe_read" /\ IsSome(msg') /\ ValidUpdate(Unwrap(msg'))) =>
          IF Unwrap(msg').kind = "binary"
          THEN /\ pc' \notin ProbePcs
               /\ streaming_data' \in
                    { Some(DecodeStreamingData(values)) : values \in FullValues }
          ELSE /\ pc' = "probe_loop"
               /\ streaming_data' = None
               /\ tries' = tries
               /\ last_error' = last_error ]_vars

\* the loop is back at its top after a text frame with such an envelope
C19_Witness ==
    /\ pc = "probe_loop"
    /\ IsSome(msg)
    /\ Unwrap(msg).kind = "text"
    /\ ValidUpdate(Unwrap(msg))
    /\ streaming_data = None
    /\ last_error = ""

----------------------------------------------------------------------------

\* a JSON frame with a msg_type that carries a tag (0 stands for none) other
\* than the vehicle_id the probe subscribed with
ForeignTag(m) ==
    /\ m.json
    /\ IsSome(m.msg_type)
    /\ m.tag # 0
    /\ m.tag # Cur.vehicle_id

\* C20 as claimed: a frame tagged for another vehicle, whatever its msg_type,
\* is discarded: the loop reads on, no sample is produced and the probe
\* attempt does not fail.
C20_ForeignTagDiscarded ==
    [][ (pc = "probe_read" /\ IsSome(msg') /\ ForeignTag(Unwrap(msg'))) =>
          /\ pc' = "probe_loop"
          /\ streaming_data' = None
          /\ tries' = tries
          /\ last_error' = last_error ]_vars

----------------------------------------------------------------------------

\* a binary data:update envelope with the vehicle's tag
OwnUpdate(m) ==
    /\ m.kind = "binary"
    /\ m.json
    /\ m.msg_type = Some("data:update")
    /\ m.envelope
    /\ m.tag = Cur.vehicle_id

\* C21: an update for the vehicle whose value has fewer or more than 13
\* fields is skipped: the loop is back at its top with no error and no
\* sample, the attempt going on; and whenever a read returns a sample, the
\* frame read was an update with exactly 13 fields.
C21_FieldCountMismatchSkipped ==
    /\ [][ (pc = "probe_read" /\ IsSome(msg') /\ OwnUpdate(Unwrap(msg'))
              /\ Unwrap(msg').count # 13) =>
             /\ pc' = "probe_loop"
             /\ streaming_data' = None
             /\ tries' = tries
             /\ last_error' = last_error
             /\ result' = result ]_vars
    /\ [][ (pc = "probe_read" /\ IsSome(streaming_data')) =>
             /\ IsSome(msg')
             /\ OwnUpdate(Unwrap(msg'))
             /\ Unwrap(msg').count = 13 ]_vars

\* the loop is back at its top after an update of 14 fields
C21_Witness ==
    /\ pc = "probe_loop"
    /\ IsSome(msg)
    /\ OwnUpdate(Unwrap(msg))
    /\ Unwrap(msg).count = 14
    /\ streaming_data = None
    /\ last_error = ""

----------------------------------------------------------------------------

\* C22 as claimed: once more than 30 seconds have elapsed since the subscribe
\* message was sent, the loop starts no read: the step it takes at its top
\* ends the attempt with the timeout error.
C22_NoReadAfterDeadline ==
    [][ (pc = "probe_loop" /\ elapsed > 30 * 1000 /\ pc' # pc) =>
          /\ pc' # "probe_read"
          /\ last_error' = "timeout" ]_vars

----------------------------------------------------------------------------

\* a close frame, or a data:error message as the loop receives messages: in
\* a binary frame (what a text frame carries is never looked at, see C19)
Terminal(m) ==
    \/ m.kind = "close"
    \/ (m.kind = "binary" /\ m.json /\ m.msg_type = Some("data:error"))

----------------------------------------------------------------------------

\* the number in the field at 0-based index i, 0 for a field that is no number
FieldAt(values, i) == IF values[i + 1].num THEN values[i + 1].n ELSE 0

\* the sample the claim describes for a 13-field update
SampleByPosition(values) ==
    [ speed |-> FieldAt(values, 1),
      odometer |-> FieldAt(values, 2),
      latitude |-> FieldAt(values, 6),
      longitude |-> FieldAt(values, 7),
      power |-> IF FieldAt(values, 8) < 0 THEN 0 - FieldAt(values, 8)
                ELSE FieldAt(values, 8) ]

\* C24: every 13-field update decodes to speed, odometer, latitude, longitude
\* and |power| from the 0-based indices 1, 2, 6, 7 and 8, a field that is no
\* number giving 0; two updates equal at these indices decode alike whatever
\* their other fields hold (both for the updates a pending read can return);
\* and every sample a read returns is such a decode.
C24_DecodeByPosition ==
    /\ [](pc = "probe_read" =>
            \A values \in FullValues :
                /\ Len(values) = 13
                /\ DecodeStreamingData(values) = SampleByPosition(values))
    /\ [](pc = "probe_read" =>
            \A a, b \in FullValues :
                (\A i \in { 1, 2, 6, 7, 8 } : a[i + 1] = b[i + 1]) =>
                    DecodeStreamingData(a) = DecodeStreamingData(b))
    /\ [][ (pc = "probe_read" /\ IsSome(streaming_data')) =>
             \E values \in FullValues :
                 Unwrap(streaming_data') = SampleByPosition(values) ]_vars

\* a sample decoded from an update whose speed and odometer fields are no
\* numbers and whose power field is negative
C24_Witness ==
    /\ IsSome(streaming_data)
    /\ IsSome(msg)
    /\ Unwrap(msg).count = 13
    /\ Unwrap(streaming_data) = [ speed |-> 0, odometer |-> 0, latitude |-> 50,
                                  longitude |-> 0, power |-> 5 ]

----------------------------------------------------------------------------

\* C25: when the telemetry fetch was made and answered, the measurement's
\* (energy counter, power gauge) is (charge_energy_added x 1000 x 3600,
\* charger_power x 1000) for a charge state with latch "Engaged", (0, 0) for
\* a charge state with another latch, and (carried counter, 0) without a
\* charge state; and whenever the probe returned a sample the odometer
\* counter is the streamed odometer x 1609.344.
C25_ChargeTable ==
    Emitted =>
        /\ IsSome(vehicle_data) =>
             LET cs == Unwrap(vehicle_data).charge_state
                 pair == << EnergyCounter(CurMeasurement), PowerGauge(CurMeasurement) >>
             IN  /\ calls.rest[CurIdx] = 1
                 /\ pair =
                      IF cs = None THEN << LastValues.charge_energy_added, 0 >>
                      ELSE IF Unwrap(cs).charge_port_latch = "Engaged"
                           THEN << Unwrap(cs).charge_energy_added * 1000 * 3600,
                                   Unwrap(cs).charger_power * 1000 >>
                           ELSE << 0, 0 >>
        /\ IsSome(streaming_data) =>
             OdometerCounter(CurMeasurement) * 1000
               = Unwrap(streaming_data).odometer * 1609344

\* a charge state with the latch disengaged discards the carried counter of
\* 5000, and the odometer counter is the streamed one, not the carried one
C25_Witness ==
    /\ Emitted
    /\ IsSome(vehicle_data)
    /\ IsSome(Unwrap(vehicle_data).charge_state)
    /\ Unwrap(Unwrap(vehicle_data).charge_state).charge_port_latch = "Disengaged"
    /\ LastValues.charge_energy_added = 5000
    /\ EnergyCounter(CurMeasurement) = 0
    /\ LastValues.odometer = 201168
    /\ OdometerCounter(CurMeasurement) = 402336

----------------------------------------------------------------------------

\* C26: the vehicles are taken one after another in the order of
\* config.vehicle_ids, each measurement being appended at its vehicle's
\* place; a cycle that succeeds returns one measurement per configured id;
\* a cycle in which a call fails returns that error and no measurement, and
\* no vehicle after the failing one has been queried.
C26_SequentialAllOrNothing ==
    /\ []( /\ pc \notin { "idle", "get_access_token" } =>
                /\ Len(measurements) = vidx - 1
                /\ \A j \in 1..Len(config.vehicle_ids) :
                       calls.vehicle[j] = IF j <= vidx THEN 1 ELSE 0
           /\ (pc \in ProbePcs \cup { "get_vehicle_data" }) =>
                Cur.id = IdNumber(config.vehicle_ids[vidx])
           /\ result.kind = "Ok" =>
                /\ Len(result.value) = Len(config.vehicle_ids)
                /\ result.value = measurements
           /\ result.kind = "Err" =>
                /\ result.value = << >>
                /\ measurements = << >>
                /\ result.error = last_error
                /\ \A j \in 1..Len(config.vehicle_ids) :
                       j > vidx =>
                         calls.vehicle[j] = 0 /\ calls.stream[j] = 0
                           /\ calls.rest[j] = 0 )
    /\ [][ Len(measurements') > Len(measurements) =>
             /\ Len(measurements') = vidx
             /\ SubSeq(measurements', 1, Len(measurements)) = measurements
             /\ Unwrap(vehicle').id = IdNumber(config.vehicle_ids[vidx])
             /\ \A k \in 1..Len(measurements'[vidx].samples) :
                    measurements'[vidx].samples[k].sample_name
                      = DisplayNameOf(Unwrap(vehicle')) ]_vars

\* get_vehicle of the second vehicle is answered with a body that does not
\* parse: the first vehicle's measurement is gone with the error
C26_Witness ==
    /\ pc = "idle"
    /\ result.kind = "Err"
    /\ result.error = "json"
    /\ vidx = 2
    /\ calls.stream[2] = 0
    /\ calls.rest[2] = 0
    /\ IsSome(vehicle)
    /\ Cur.id = 1
    /\ measurements = << >>

----------------------------------------------------------------------------

\* C27: for an awake vehicle whose carried odometer is 0 (no prior
\* measurement) and whose probe returned a positive odometer, the telemetry
\* fetch is made in that cycle, also with streamed power 0 and speed 0; in a
\* following cycle, whose prior is what the cycle before returned, a sample
\* with power 0, speed 0 and the prior's odometer makes the fetch exactly
\* when the prior power gauge is > 0.
C27_FirstSightFetches ==
    (IsSome(vehicle) /\ IsSome(streaming_data)) =>
        LET data == Unwrap(streaming_data)
        IN  /\ (LastValues.odometer = 0 /\ data.odometer > 0) =>
                 calls.rest[CurIdx] = 1
            /\ ( /\ cycle > 1
                 /\ data.power = 0
                 /\ data.speed = 0
                 /\ (data.odometer * METERS_PER_MILE_X1000) \div 1000
                      = LastValues.odometer ) =>
                 (calls.rest[CurIdx] = 1 <=> LastValues.charger_power > 0)

\* second cycle, parked where the first cycle left the vehicle, the first
\* cycle having measured a charger power of 11 kW: the fetch is made
C27_Witness ==
    /\ cycle = 2
    /\ IsSome(vehicle)
    /\ IsSome(streaming_data)
    /\ Unwrap(streaming_data).power = 0
    /\ Unwrap(streaming_data).speed = 0
    /\ Unwrap(streaming_data).odometer = 250
    /\ LastValues.odometer = 402336
    /\ LastValues.charger_power = 11000
    /\ calls.rest[CurIdx] = 1
    /\ pc = "get_vehicle_data"

====
